---------------------------- MODULE Spec2Model ----------------------------
(***************************************************************************)
(* A model of the DWG cleaner (src/clean_dwg.py): the five border          *)
(* detectors, the arbitration in find_drawing_border, the pruning in       *)
(* delete_entities_outside_bounds and the per-file outcome computed by     *)
(* process_dwg_file.                                                       *)
(*                                                                         *)
(* Conventions.                                                            *)
(*  - A drawing document is the sequence of its model-space entities; the  *)
(*    handle of an entity is its position in that sequence (handles are    *)
(*    unique within one document).                                         *)
(*  - Coordinates are integers in drawing units.  Line end points are      *)
(*    drawn from even numbers, so that the midpoints (start + end) / 2     *)
(*    the line detector computes are integers as well.                     *)
(*  - A length or distance sqrt(dx^2 + dy^2) is represented by its square; *)
(*    sqrt is strictly increasing, so every comparison between lengths,    *)
(*    or of a distance with a tolerance, is the comparison of the squares. *)
(*  - A ratio max(w,h)/min(w,h) < k with min(w,h) > 0 is max < k * min.    *)
(*  - A COM property that raises for an entity is named in that entity's   *)
(*    "fails" set; None is the empty tuple.                                *)
(***************************************************************************)
EXTENDS Integers, Sequences, FiniteSets, TLC

None == << >>

Min2(a, b) == IF a <= b THEN a ELSE b
Max2(a, b) == IF a >= b THEN a ELSE b
Abs(a) == IF a < 0 THEN -a ELSE a

SetMin(S) == CHOOSE x \in S : \A y \in S : x <= y
SetMax(S) == CHOOSE x \in S : \A y \in S : x >= y

(***************************************************************************)
(* Strings are sequences of one-character strings; upper() maps the        *)
(* letters a..z to A..Z and leaves every other character as it is.         *)
(***************************************************************************)
LowerLetters ==
    << "a","b","c","d","e","f","g","h","i","j","k","l","m",
       "n","o","p","q","r","s","t","u","v","w","x","y","z" >>
UpperLetters ==
    << "A","B","C","D","E","F","G","H","I","J","K","L","M",
       "N","O","P","Q","R","S","T","U","V","W","X","Y","Z" >>

UpperChar(c) ==
    IF \E k \in 1..26 : LowerLetters[k] = c
    THEN UpperLetters[CHOOSE k \in 1..26 : LowerLetters[k] = c]
    ELSE c

upper(s) == [k \in 1..Len(s) |-> UpperChar(s[k])]

\* Python's "sub in s"
Contains(s, sub) ==
    \E k \in 0..(Len(s) - Len(sub)) : SubSeq(s, k + 1, k + Len(sub)) = sub

\* Python's s.startswith(p)
StartsWith(s, p) == Len(s) >= Len(p) /\ SubSeq(s, 1, Len(p)) = p

BORDER    == << "B","O","R","D","E","R" >>
FRAME     == << "F","R","A","M","E" >>
TITLE     == << "T","I","T","L","E" >>
DEFPOINTS == << "D","E","F","P","O","I","N","T","S" >>
LEVEL_SP  == << "L","E","V","E","L"," " >>

(***************************************************************************)
(* Entities.  An entity is a record                                        *)
(*   [type, layer, name, box, sp, ep, fails]                               *)
(* type  : EntityName                                                      *)
(* layer : Layer, name : Name (of a block reference)                       *)
(* box   : <<minX, minY, maxX, maxY>>, what GetBoundingBox returns         *)
(* sp,ep : StartPoint, EndPoint of a line, <<x, y>>                        *)
(* fails : the properties that raise for this entity                       *)
(***************************************************************************)
Ok(e, prop) == prop \notin e.fails

\* "BlockReference" in entity_type or entity_type == "AcDbBlockReference"
IsBlockReference(t) == t = "AcDbBlockReference"
\* entity_type == "AcDbFace" or "Face" in entity_type
IsFace(t) == t = "AcDbFace"
\* "Polyline" in entity_type or "POLYLINE" in entity_type.upper()
IsPolyline(t) == t \in {"AcDbPolyline", "AcDb2dPolyline"}
\* "Line" in entity_type and "Polyline" not in entity_type
IsLine(t) == t = "AcDbLine"

Width(b)  == b[3] - b[1]
Height(b) == b[4] - b[2]
Area(b)   == Width(b) * Height(b)

\* max(width, height) / min(width, height) < k, for min(width, height) > 0
AspectBelow(w, h, k) == Max2(w, h) < k * Min2(w, h)
\* max(width, height) / min(width, height) > k, for min(width, height) > 0
AspectAbove(w, h, k) == Max2(w, h) > k * Min2(w, h)

\* What a detector returns: (bounds, handles), or the exception it lets escape.
Found(b, hs) == [raised |-> FALSE, bounds |-> b, handles |-> hs]
NotFound     == [raised |-> FALSE, bounds |-> None, handles |-> {}]
Raised       == [raised |-> TRUE, bounds |-> None, handles |-> {}]

(***************************************************************************)
(* Detectors 1, 3, 4 keep the largest entity passing their filter: the     *)
(* loop is a left fold over the document carrying (best entity, best_area) *)
(* where best = 0 stands for None.                                         *)
(***************************************************************************)
NoBest == [best |-> 0, area |-> 0]

\* Mutant: best_area is raised before the name and the size are looked at.
BlockStep_area_first(doc, i, acc) ==
    LET e == doc[i]
        w == Width(e.box)
        h == Height(e.box)
        block_name == IF Ok(e, "Name") THEN upper(e.name) ELSE << >>
    IN  IF /\ Ok(e, "EntityName")
           /\ IsBlockReference(e.type)
           /\ Ok(e, "GetBoundingBox")
           /\ Area(e.box) > acc.area
        THEN IF /\ \/ Contains(block_name, BORDER)
                   \/ Contains(block_name, FRAME)
                   \/ Contains(block_name, TITLE)
                /\ w > 100 /\ h > 100
                /\ (IF Min2(w, h) > 0 THEN AspectBelow(w, h, 5) ELSE FALSE)
             THEN [best |-> i, area |-> Area(e.box)]
             ELSE [best |-> acc.best, area |-> Area(e.box)]
        ELSE acc

\* One iteration of the loop of find_border_block_reference.
BlockStep(doc, i, acc) ==
    LET e == doc[i]
        w == Width(e.box)
        h == Height(e.box)
        block_name == IF Ok(e, "Name") THEN upper(e.name) ELSE << >>
    IN  IF /\ Ok(e, "EntityName")
           /\ IsBlockReference(e.type)
           /\ \/ Contains(block_name, BORDER)
              \/ Contains(block_name, FRAME)
              \/ Contains(block_name, TITLE)
           /\ Ok(e, "GetBoundingBox")
           /\ Area(e.box) > acc.area /\ w > 100 /\ h > 100
           /\ (IF Min2(w, h) > 0 THEN AspectBelow(w, h, 5) ELSE FALSE)
        THEN [best |-> i, area |-> Area(e.box)]
        ELSE acc

RECURSIVE BlockLoop(_, _, _)
BlockLoop(doc, i, acc) ==
    IF i > Len(doc) THEN acc
    ELSE BlockLoop(doc, i + 1, BlockStep(doc, i, acc))

\* best_block.Handle is read outside every try block.
ReturnBest(doc, acc) ==
    IF acc.best = 0 THEN NotFound
    ELSE IF ~Ok(doc[acc.best], "Handle") THEN Raised
    ELSE Found(doc[acc.best].box, {acc.best})

find_border_block_reference(doc) == ReturnBest(doc, BlockLoop(doc, 1, NoBest))

(***************************************************************************)
(* Detector 2: the union box of the entities on a border layer.            *)
(***************************************************************************)
is_border_layer(layer_name) ==
    \/ Contains(layer_name, BORDER)
    \/ Contains(layer_name, FRAME)
    \/ layer_name = DEFPOINTS
    \/ StartsWith(layer_name, LEVEL_SP)

\* The handles of border_entities: Layer, GetBoundingBox and Handle are all
\* read inside the try blocks, an entity for which one raises is skipped.
border_entities(doc) ==
    { i \in 1..Len(doc) :
        /\ Ok(doc[i], "Layer")
        /\ is_border_layer(upper(doc[i].layer))
        /\ Ok(doc[i], "GetBoundingBox")
        /\ Ok(doc[i], "Handle") }

\* Mutant: max_y taken over the min_y.
UnionBox_max_of_min_y(doc, S) ==
    << SetMin({doc[i].box[1] : i \in S}), SetMin({doc[i].box[2] : i \in S}),
       SetMax({doc[i].box[3] : i \in S}), SetMax({doc[i].box[2] : i \in S}) >>

UnionBox(doc, S) ==
    << SetMin({doc[i].box[1] : i \in S}), SetMin({doc[i].box[2] : i \in S}),
       SetMax({doc[i].box[3] : i \in S}), SetMax({doc[i].box[4] : i \in S}) >>

\* From "Must be reasonably sized" on, for the union box b
CheckLayerBox(b, S) ==
    IF Width(b) < 100 \/ Height(b) < 100 THEN NotFound
    ELSE IF (IF Min2(Width(b), Height(b)) > 0
             THEN AspectAbove(Width(b), Height(b), 5) ELSE TRUE)
    THEN NotFound
    ELSE Found(b, S)

UnionOf(doc, S) == IF S = {} THEN NotFound ELSE CheckLayerBox(UnionBox(doc, S), S)

find_border_by_layer(doc) == UnionOf(doc, border_entities(doc))

(***************************************************************************)
(* Detector 3: the largest 3D face.                                        *)
(***************************************************************************)
FaceStep(doc, i, acc) ==
    LET e == doc[i]
        w == Width(e.box)
        h == Height(e.box)
    IN  IF /\ Ok(e, "EntityName")
           /\ IsFace(e.type)
           /\ Ok(e, "GetBoundingBox")
           /\ Area(e.box) > acc.area /\ w > 0 /\ h > 0
           /\ AspectBelow(w, h, 3)
        THEN [best |-> i, area |-> Area(e.box)]
        ELSE acc

RECURSIVE FaceLoop(_, _, _)
FaceLoop(doc, i, acc) ==
    IF i > Len(doc) THEN acc
    ELSE FaceLoop(doc, i + 1, FaceStep(doc, i, acc))

find_largest_3dface(doc) == ReturnBest(doc, FaceLoop(doc, 1, NoBest))

(***************************************************************************)
(* Detector 4: the largest polyline.  entity.Closed is read and printed    *)
(* only; get_polyline_bounds returns None when GetBoundingBox raises.      *)
(***************************************************************************)
get_polyline_bounds(e) == IF Ok(e, "GetBoundingBox") THEN e.box ELSE None

PolylineStep(doc, i, acc) ==
    LET e == doc[i]
        bounds == get_polyline_bounds(e)
    IN  IF /\ Ok(e, "EntityName")
           /\ IsPolyline(e.type)
           /\ bounds # None
           /\ Area(bounds) > acc.area /\ Width(bounds) > 0 /\ Height(bounds) > 0
           /\ AspectBelow(Width(bounds), Height(bounds), 10)
        THEN [best |-> i, area |-> Area(bounds)]
        ELSE acc

RECURSIVE PolylineLoop(_, _, _)
PolylineLoop(doc, i, acc) ==
    IF i > Len(doc) THEN acc
    ELSE PolylineLoop(doc, i + 1, PolylineStep(doc, i, acc))

find_largest_rectangular_polyline(doc) ==
    ReturnBest(doc, PolylineLoop(doc, 1, NoBest))

(***************************************************************************)
(* Detector 5: four lines forming a rectangle.                             *)
(***************************************************************************)
\* The square of get_line_length(entity); 0 when StartPoint or EndPoint raises.
get_line_length(e) ==
    IF Ok(e, "StartPoint") /\ Ok(e, "EndPoint")
    THEN (e.ep[1] - e.sp[1]) * (e.ep[1] - e.sp[1])
         + (e.ep[2] - e.sp[2]) * (e.ep[2] - e.sp[2])
    ELSE 0

\* The entities for which the body of the collecting loop reaches
\* all_lines.append(line_data).
IsCollectedLine(e) ==
    /\ Ok(e, "EntityName")
    /\ IsLine(e.type)
    /\ get_line_length(e) > 0
    /\ Ok(e, "Handle")

\* line_data; length holds the squared length.
LineData(doc, i) ==
    LET e == doc[i]
    IN  [ handle   |-> i,
          length   |-> get_line_length(e),
          start    |-> e.sp,
          end      |-> e.ep,
          center_x |-> (e.sp[1] + e.ep[1]) \div 2,
          center_y |-> (e.sp[2] + e.ep[2]) \div 2 ]

Dx(l) == Abs(l.end[1] - l.start[1])
Dy(l) == Abs(l.end[2] - l.start[2])

\* dx > dy * 2
IsHorizontal(l) == Dx(l) > Dy(l) * 2
\* Mutant: the factor 2 is missing.
IsVertical_steep(l) == ~IsHorizontal(l) /\ Dy(l) > Dx(l)
\* elif dy > dx * 2
IsVertical(l) == ~IsHorizontal(l) /\ Dy(l) > Dx(l) * 2

\* The subsequence of s of the elements at the positions of keep, in order.
Filter(s, keep) ==
    [k \in 1..Cardinality(keep) |->
        s[CHOOSE i \in keep : Cardinality({ j \in keep : j <= i }) = k]]

all_lines(doc) ==
    Filter([i \in 1..Len(doc) |-> LineData(doc, i)],
           { i \in 1..Len(doc) : IsCollectedLine(doc[i]) })

\* list.sort is stable, also with reverse=True: the element at position i
\* moves behind every element that is strictly before it in the order and
\* every equal element that stood before it.
\* key[i] is the key of s[i].
SortDescending(s, key) ==
    LET rank(i) == 1 + Cardinality({ j \in 1..Len(s) :
                        \/ key[j] > key[i]
                        \/ key[j] = key[i] /\ j < i })
    IN  [p \in 1..Len(s) |-> s[CHOOSE i \in 1..Len(s) : rank(i) = p]]

SortAscending(s, key) ==
    LET rank(i) == 1 + Cardinality({ j \in 1..Len(s) :
                        \/ key[j] < key[i]
                        \/ key[j] = key[i] /\ j < i })
    IN  [p \in 1..Len(s) |-> s[CHOOSE i \in 1..Len(s) : rank(i) = p]]

\* dist <= tolerance for some pair of end points
lines_connect(line1, line2, tolerance) ==
    \E p1 \in {line1.start, line1.end} : \E p2 \in {line2.start, line2.end} :
        (p1[1] - p2[1]) * (p1[1] - p2[1]) + (p1[2] - p2[2]) * (p1[2] - p2[2])
            <= tolerance * tolerance

\* The quadruples <<h1, h2, v1, v2>> (positions in the two lists) that the
\* innermost test of find_rectangle_from_lines accepts.
Rectangles(hs, vs, tolerance) ==
    { q \in (1..Len(hs)) \X (1..Len(hs)) \X (1..Len(vs)) \X (1..Len(vs)) :
        /\ hs[q[1]].handle # hs[q[2]].handle
        /\ vs[q[3]].handle # vs[q[4]].handle
        /\ lines_connect(hs[q[1]], vs[q[3]], tolerance)
        /\ lines_connect(hs[q[1]], vs[q[4]], tolerance)
        /\ lines_connect(hs[q[2]], vs[q[3]], tolerance)
        /\ lines_connect(hs[q[2]], vs[q[4]], tolerance) }

\* q is met before r by the four nested loops.
LoopOrderLE(q, r) ==
    \/ q[1] < r[1]
    \/ q[1] = r[1] /\ q[2] < r[2]
    \/ q[1] = r[1] /\ q[2] = r[2] /\ q[3] < r[3]
    \/ q[1] = r[1] /\ q[2] = r[2] /\ q[3] = r[3] /\ q[4] <= r[4]

FirstOf(hs, vs, R) ==
    IF R = {} THEN None
    ELSE LET q == CHOOSE q \in R : \A r \in R : LoopOrderLE(q, r)
         IN  << hs[q[1]], hs[q[2]], vs[q[3]], vs[q[4]] >>

\* The first quadruple the loops accept, as the list [h1, h2, v1, v2], or None.
find_rectangle_from_lines(hs, vs, tolerance) ==
    FirstOf(hs, vs, Rectangles(hs, vs, tolerance))

\* Mutant: the ladder starts at its second step.
Tolerances_from_20 == << 20, 10, 5, 2, 1 >>
\* Mutant: the ladder climbs.
Tolerances_ascending == << 1, 2, 5, 10, 20, 50 >>
Tolerances == << 50, 20, 10, 5, 2, 1 >>

\* for tolerance in [50.0, 20.0, 10.0, 5.0, 2.0, 1.0]: ... break
\* The result is [rectangle, tolerance]; the rectangle None after the last step.
SearchResult(rectangle, tolerance) ==
    [rectangle |-> rectangle, tolerance |-> IF rectangle = None THEN 0 ELSE tolerance]

RECURSIVE ToleranceLoop(_, _, _)
TryTolerance(hs, vs, k, rectangle) ==
    IF rectangle # None THEN SearchResult(rectangle, Tolerances[k])
    ELSE ToleranceLoop(hs, vs, k + 1)

ToleranceLoop(hs, vs, k) ==
    IF k > Len(Tolerances) THEN SearchResult(None, 0)
    ELSE TryTolerance(hs, vs, k,
                      find_rectangle_from_lines(hs, vs, Tolerances[k]))

TopCount == 30

\* Mutant: every line is retained.
Top_all(s) == s
\* horizontal[:min(30, len(horizontal))]
Top(s) == SubSeq(s, 1, Min2(TopCount, Len(s)))

LengthOf(ls) == [k \in 1..Len(ls) |-> ls[k].length]
CenterX(ls) == [k \in 1..Len(ls) |-> ls[k].center_x]
CenterY(ls) == [k \in 1..Len(ls) |-> ls[k].center_y]

HandlesOf(ls) == [k \in 1..Len(ls) |-> ls[k].handle]

\* What the detector returns, (bounds, border_handles), with what it printed
\* on the way: the handles of the two sorted lists and of the rectangle it
\* settled on, and the tolerance of the ladder at which that rectangle was
\* found (0: the longest-lines fallback).
LinesResult(bounds, handles, horizontal, vertical, rectangle, tolerance) ==
    [ raised |-> FALSE, bounds |-> bounds, handles |-> handles,
      horizontal |-> HandlesOf(horizontal), vertical |-> HandlesOf(vertical),
      rectangle |-> HandlesOf(rectangle), tolerance |-> tolerance ]

\* Mutant: the bounds are the extent of the end points of the four lines.
BoundsOfLines_extents(horizontal, vertical, rectangle, tolerance, bottom_line, top_line, left_line, right_line) ==
    LinesResult(<< Min2(left_line.start[1], left_line.end[1]),
                   Min2(bottom_line.start[2], bottom_line.end[2]),
                   Max2(right_line.start[1], right_line.end[1]),
                   Max2(top_line.start[2], top_line.end[2]) >>,
                { bottom_line.handle, top_line.handle,
                  left_line.handle, right_line.handle },
                horizontal, vertical, rectangle, tolerance)

\* "Calculate bounds" and "Collect handles of border lines to preserve"
BoundsOfLines(horizontal, vertical, rectangle, tolerance, bottom_line, top_line, left_line, right_line) ==
    LinesResult(<< left_line.center_x, bottom_line.center_y,
                   right_line.center_x, top_line.center_y >>,
                { bottom_line.handle, top_line.handle,
                  left_line.handle, right_line.handle },
                horizontal, vertical, rectangle, tolerance)

\* "Sort to find positions": h_lines and v_lines are sorted already.
PositionLines(horizontal, vertical, rectangle, tolerance, h_lines, v_lines) ==
    BoundsOfLines(horizontal, vertical, rectangle, tolerance,
                  h_lines[1], h_lines[Len(h_lines)],
                  v_lines[1], v_lines[Len(v_lines)])

\* h_lines, with "if len(h_lines) < 2: h_lines = rectangle[:2]"
HLinesOf(rectangle, h_found) ==
    IF Len(h_found) < 2 THEN SubSeq(rectangle, 1, 2) ELSE h_found
\* v_lines, with "if len(v_lines) < 2: v_lines = rectangle[2:]"
VLinesOf(rectangle, v_found) ==
    IF Len(v_found) < 2 THEN SubSeq(rectangle, 3, 4) ELSE v_found

\* h_lines.sort(key=lambda x: x['center_y']), v_lines.sort(... x['center_x'])
SortLines(horizontal, vertical, rectangle, tolerance, h_lines, v_lines) ==
    PositionLines(horizontal, vertical, rectangle, tolerance,
                  SortAscending(h_lines, CenterY(h_lines)),
                  SortAscending(v_lines, CenterX(v_lines)))

\* "Extract the 4 lines"
ExtractLines(horizontal, vertical, rectangle, tolerance) ==
    SortLines(horizontal, vertical, rectangle, tolerance,
        HLinesOf(rectangle,
                 Filter(rectangle, { k \in 1..Len(rectangle) : Dx(rectangle[k]) > Dy(rectangle[k]) })),
        VLinesOf(rectangle,
                 Filter(rectangle, { k \in 1..Len(rectangle) : Dy(rectangle[k]) > Dx(rectangle[k]) })))

\* Mutant: no rectangle, no border.
AfterSearch_no_fallback(horizontal, vertical, search) ==
    IF search.rectangle = None
    THEN LinesResult(None, {}, horizontal, vertical, << >>, 0)
    ELSE ExtractLines(horizontal, vertical, search.rectangle, search.tolerance)

\* "if not rectangle": fall back to the two longest of each list
AfterSearch(horizontal, vertical, search) ==
    ExtractLines(horizontal, vertical,
        IF search.rectangle # None THEN search.rectangle
        ELSE << horizontal[1], horizontal[2], vertical[1], vertical[2] >>,
        search.tolerance)

\* From "if len(horizontal) < 2 or len(vertical) < 2" on; the two lists are
\* sorted by length, longest first.
SearchLines(horizontal, vertical) ==
    IF Len(horizontal) < 2 \/ Len(vertical) < 2
    THEN LinesResult(None, {}, horizontal, vertical, << >>, 0)
    ELSE AfterSearch(horizontal, vertical,
                     ToleranceLoop(Top(horizontal), Top(vertical), 1))

\* horizontal.sort(key=lambda x: x['length'], reverse=True), and vertical
SortByLength(horizontal, vertical) ==
    SearchLines(SortDescending(horizontal, LengthOf(horizontal)),
                SortDescending(vertical, LengthOf(vertical)))

ClassifyLines(lines) ==
    SortByLength(Filter(lines, { k \in 1..Len(lines) : IsHorizontal(lines[k]) }),
                 Filter(lines, { k \in 1..Len(lines) : IsVertical(lines[k]) }))

find_border_from_longest_lines(doc) == ClassifyLines(all_lines(doc))

(***************************************************************************)
(* Arbitration.                                                            *)
(***************************************************************************)
Candidate(type, r) ==
    [type |-> type, bounds |-> r.bounds, handles |-> r.handles,
     area |-> Area(r.bounds)]

\* candidates.append(...) when the detector returned bounds
Append1(candidates, type, r) ==
    IF r.bounds # None THEN Append(candidates, Candidate(type, r))
    ELSE candidates

AreaOf(candidates) == [k \in 1..Len(candidates) |-> candidates[k].area]

\* Mutant: an ascending sort, read from its end.
PickBest_last(candidates) ==
    SortAscending(candidates, AreaOf(candidates))[Len(candidates)]

\* candidates.sort(key=lambda x: x[3], reverse=True); best = candidates[0]
PickBest(candidates) == SortDescending(candidates, AreaOf(candidates))[1]

\* What find_drawing_border returns, (bounds, handles, border_type), or the
\* exception of a detector, which it does not catch; with the candidates
\* list, and whether and with what result method 5 was called.
BorderResult(raised, bounds, handles, border_type, candidates, lines_called, lines) ==
    [raised |-> raised, bounds |-> bounds, handles |-> handles,
     border_type |-> border_type, candidates |-> candidates,
     lines_called |-> lines_called, lines |-> lines]

Escaped == BorderResult(TRUE, None, {}, "", << >>, FALSE, None)

UseBest(candidates, best) ==
    BorderResult(FALSE, best.bounds, best.handles, best.type, candidates,
                 FALSE, None)

\* "Method 5": bounds, handles = find_border_from_longest_lines(doc)
UseLines(r5) ==
    BorderResult(FALSE, r5.bounds, r5.handles,
                 IF r5.bounds # None THEN "lines" ELSE "", << >>, TRUE, r5)

\* Mutant: method 5 is one more candidate.
WithLines(candidates, best, r5) ==
    BorderResult(FALSE, best.bounds, best.handles, best.type, candidates,
                 TRUE, r5)
LinesCompete(candidates, r5) ==
    WithLines(candidates, PickBest(Append1(candidates, "lines", r5)), r5)
Arbitrate_lines_compete(doc, candidates) ==
    IF candidates # << >>
    THEN LinesCompete(candidates, find_border_from_longest_lines(doc))
    ELSE UseLines(find_border_from_longest_lines(doc))

\* "Pick the largest candidate", or fall back to method 5
Arbitrate(doc, candidates) ==
    IF candidates # << >> THEN UseBest(candidates, PickBest(candidates))
    ELSE UseLines(find_border_from_longest_lines(doc))

CollectCandidates(doc, r1, r2, r3, r4) ==
    IF r1.raised \/ r2.raised \/ r3.raised \/ r4.raised THEN Escaped
    ELSE Arbitrate(doc,
            Append1(Append1(Append1(Append1(<< >>,
                "border_block", r1), "border_layer", r2),
                "3dface", r3), "polyline", r4))

find_drawing_border(doc) ==
    CollectCandidates(doc,
        find_border_block_reference(doc), find_border_by_layer(doc),
        find_largest_3dface(doc), find_largest_rectangular_polyline(doc))

(***************************************************************************)
(* Pruning.                                                                *)
(***************************************************************************)
\* Mutant: the four comparisons strict.
entity_in_bounds_strict(e, bounds, tolerance) ==
    IF ~Ok(e, "GetBoundingBox") THEN TRUE
    ELSE /\ e.box[1] > bounds[1] - tolerance
         /\ e.box[2] > bounds[2] - tolerance
         /\ e.box[3] < bounds[3] + tolerance
         /\ e.box[4] < bounds[4] + tolerance

\* Mutant: an entity whose bounding box query fails counts as outside.
entity_in_bounds_fail_closed(e, bounds, tolerance) ==
    IF ~Ok(e, "GetBoundingBox") THEN FALSE
    ELSE /\ e.box[1] >= bounds[1] - tolerance
         /\ e.box[2] >= bounds[2] - tolerance
         /\ e.box[3] <= bounds[3] + tolerance
         /\ e.box[4] <= bounds[4] + tolerance

\* entity_in_bounds(entity, bounds, tolerance=1.0), for bounds that are not None
entity_in_bounds(e, bounds, tolerance) ==
    IF ~Ok(e, "GetBoundingBox") THEN TRUE
    ELSE /\ e.box[1] >= bounds[1] - tolerance
         /\ e.box[2] >= bounds[2] - tolerance
         /\ e.box[3] <= bounds[3] + tolerance
         /\ e.box[4] <= bounds[4] + tolerance

\* Mutant: the border handles are not looked at.
IsOutside_unprotected(doc, i, bounds, border_handles) ==
    /\ Ok(doc[i], "Handle")
    /\ ~entity_in_bounds(doc[i], bounds, 1)

\* The test of the collecting loop of delete_entities_outside_bounds:
\* entity i is appended to entities_to_delete.
IsOutside(doc, i, bounds, border_handles) ==
    /\ Ok(doc[i], "Handle")
    /\ i \notin border_handles
    /\ ~entity_in_bounds(doc[i], bounds, 1)

\* entities_to_delete, in document order
CollectOutside(doc, bounds, border_handles) ==
    Filter([i \in 1..Len(doc) |-> i],
           { i \in 1..Len(doc) : IsOutside(doc, i, bounds, border_handles) })

(***************************************************************************)
(* The documents the model is run on.                                      *)
(***************************************************************************)
Name_0          == << "0" >>
Name_02_border  == << "0","2","_","b","o","r","d","e","r" >>
Name_Defpoints  == << "D","e","f","p","o","i","n","t","s" >>
Name_Defpoints2 == << "D","e","f","p","o","i","n","t","s","2" >>
Name_Level60    == << "L","e","v","e","l"," ","6","0" >>
Name_Sublevel1  == << "S","u","b","l","e","v","e","l"," ","1" >>
Name_A1_Border  == << "A","1","_","B","o","r","d","e","r" >>
Name_TitleBlock == << "T","i","t","l","e","B","l","o","c","k" >>
Name_Logo       == << "L","o","g","o" >>

\* An entity that is not a line: it has no StartPoint and no EndPoint.
Entity(type, layer, name, box, fails) ==
    [type |-> type, layer |-> layer, name |-> name, box |-> box,
     sp |-> << 0, 0 >>, ep |-> << 0, 0 >>,
     fails |-> fails \cup {"StartPoint", "EndPoint"}]

\* A line, whose bounding box is the box of its two end points.
Line(sp, ep, fails) ==
    [type |-> "AcDbLine", layer |-> Name_0, name |-> << >>,
     box |-> << Min2(sp[1], ep[1]), Min2(sp[2], ep[2]),
                Max2(sp[1], ep[1]), Max2(sp[2], ep[2]) >>,
     sp |-> sp, ep |-> ep, fails |-> fails]

\* All sequences of at most n elements of S.
SeqsUpTo(S, n) == UNION { [1..k -> S] : k \in 0..n }

MaxEntities == 3
MaxLines == 4
MaxDetectEntities == 3
MaxDetectLines == 5
MaxFill == 31
MaxLadderLines == 4

\* The documents process_dwg_file is run on.  A frame of 1000 x 800 as a
\* polyline and as an entity on a border layer; an entity that reaches 1 unit
\* out of the frame on every side, entities that reach 2 units out of it on
\* one side, and entities far out of it for which Delete, GetBoundingBox or
\* Handle raises.
PipelineEntities ==
    { Entity("AcDbPolyline", Name_0, << >>, << 0, 0, 1000, 800 >>, {}),
      Entity("AcDbCircle", Name_02_border, << >>, << 0, 0, 1000, 800 >>, {}),
      Entity("AcDbCircle", Name_0, << >>, << -1, -1, 1001, 801 >>, {}),
      Entity("AcDbCircle", Name_0, << >>, << -2, 0, 50, 50 >>, {}),
      Entity("AcDbCircle", Name_0, << >>, << 0, -2, 50, 50 >>, {}),
      Entity("AcDbCircle", Name_0, << >>, << 900, 700, 1002, 800 >>, {}),
      Entity("AcDbCircle", Name_0, << >>, << 900, 700, 1000, 802 >>, {}),
      Entity("AcDbText", Name_0, << >>, << 1200, 0, 1300, 100 >>, {"Delete"}),
      Entity("AcDbText", Name_0, << >>, << 1200, 0, 1300, 100 >>, {"GetBoundingBox"}),
      Entity("AcDbText", Name_0, << >>, << 1200, 0, 1300, 100 >>, {"Handle"}) }

\* Four lines of a rectangle of 200 x 100, the bottom one overhanging its
\* left corner by 40, a line far from them, and a line from the lower left
\* corner that is neither horizontal nor vertical.
PipelineLines ==
    { Line(<< -40, 0 >>, << 200, 0 >>, {}),
      Line(<< 0, 100 >>, << 200, 100 >>, {}),
      Line(<< 0, 0 >>, << 0, 100 >>, {}),
      Line(<< 200, 0 >>, << 200, 100 >>, {}),
      Line(<< 300, 300 >>, << 400, 300 >>, {}),
      Line(<< 0, 0 >>, << 60, 100 >>, {}) }

PipelineDocuments ==
    SeqsUpTo(PipelineEntities, MaxEntities) \cup SeqsUpTo(PipelineLines, MaxLines)

\* The documents find_drawing_border alone is run on.  Entities of every
\* kind the detectors 1 to 4 look at, passing and failing their filters ...
DetectEntities ==
    { Entity("AcDbPolyline", Name_0, << >>, << 0, 0, 1000, 800 >>, {}),
      Entity("AcDbPolyline", Name_0, << >>, << 0, 0, 0, 500 >>, {}),
      Entity("AcDbPolyline", Name_0, << >>, << 0, 0, 10000, 100 >>, {}),
      Entity("AcDb2dPolyline", Name_0, << >>, << 0, 0, 400, 300 >>, {"Handle"}),
      Entity("AcDbCircle", Name_02_border, << >>, << 0, 0, 1000, 800 >>, {}),
      Entity("AcDbText", Name_Defpoints, << >>, << 100, 100, 200, 150 >>, {}),
      Entity("AcDbText", Name_Level60, << >>, << -100, 0, 400, 100 >>, {}),
      Entity("AcDbText", Name_Sublevel1, << >>, << -500, -500, 500, 500 >>, {}),
      Entity("AcDbText", Name_Defpoints2, << >>, << -500, -500, 500, 500 >>, {}),
      Entity("AcDbText", Name_02_border, << >>, << -500, -500, 500, 500 >>, {"GetBoundingBox"}),
      Entity("AcDbText", Name_02_border, << >>, << -500, -500, 500, 500 >>, {"Handle"}),
      Entity("AcDbText", Name_02_border, << >>, << -500, -500, 500, 500 >>, {"Layer"}),
      Entity("AcDbBlockReference", Name_0, Name_A1_Border, << 0, 0, 400, 300 >>, {}),
      Entity("AcDbBlockReference", Name_0, Name_TitleBlock, << 0, 0, 505, 101 >>, {}),
      Entity("AcDbBlockReference", Name_0, Name_Logo, << 0, 0, 2000, 2000 >>, {}),
      Entity("AcDbFace", Name_0, << >>, << 0, 0, 300, 200 >>, {}),
      Entity("AcDbFace", Name_0, << >>, << 0, 0, 900, 300 >>, {}) }

\* ... and lines: the four sides of a rectangle of 200 x 100 that meet in its
\* corners, a longer right side 30 units off the corners, a longer line that
\* meets no other, and a small polyline.
DetectLines ==
    { Line(<< 0, 0 >>, << 200, 0 >>, {}),
      Line(<< 0, 100 >>, << 200, 100 >>, {}),
      Line(<< 0, 0 >>, << 0, 100 >>, {}),
      Line(<< 200, 0 >>, << 200, 100 >>, {}),
      Line(<< 230, -2 >>, << 230, 100 >>, {}),
      Line(<< 0, 400 >>, << 300, 400 >>, {}),
      Entity("AcDbPolyline", Name_0, << >>, << 0, 0, 50, 50 >>, {}) }

DetectDocuments == SeqsUpTo(DetectEntities, MaxDetectEntities)

LineDocuments == SeqsUpTo(DetectLines, MaxDetectLines)

\* ... and on documents of nothing but lines that connect, where the line
\* detector always runs: the bottom side of a rectangle of 200 x 100,
\* followed by some of its four sides, which meet in its corners, and of a
\* longer right side 30 units off the corners.
LadderLines ==
    { Line(<< 0, 0 >>, << 200, 0 >>, {}),
      Line(<< 0, 100 >>, << 200, 100 >>, {}),
      Line(<< 0, 0 >>, << 0, 100 >>, {}),
      Line(<< 200, 0 >>, << 200, 100 >>, {}),
      Line(<< 230, -2 >>, << 230, 100 >>, {}) }

LadderDocuments ==
    { << Line(<< 0, 0 >>, << 200, 0 >>, {}) >> \o d :
        d \in SeqsUpTo(LadderLines, MaxLadderLines) }

\* ... and on documents with more lines than the detector retains of a
\* class: n horizontal lines, each longer than the one before and rising by
\* 20 units from left to right, 100 units apart and far above the origin,
\* followed or preceded by some of: the four sides of a rectangle of
\* 200 x 100 at the origin, a line that is neither horizontal nor vertical,
\* and a line of length 0.
Filler(k) ==
    Line(<< 0, 5000 + 100 * k >>, << 1000 + k, 5020 + 100 * k >>, {})

Fillers(n) == [k \in 1..n |-> Filler(k)]

RectLines ==
    << Line(<< 0, 0 >>, << 200, 0 >>, {}),
       Line(<< 0, 0 >>, << 60, 100 >>, {}),
       Line(<< 0, 0 >>, << 0, 100 >>, {}),
       Line(<< 5, 5 >>, << 5, 5 >>, {}),
       Line(<< 200, 0 >>, << 200, 100 >>, {}),
       Line(<< 0, 100 >>, << 200, 100 >>, {}) >>

LongDocuments ==
    { Fillers(n) \o Filter(RectLines, keep) :
        n \in (TopCount - 2)..MaxFill, keep \in SUBSET DOMAIN RectLines }
    \cup
    { Filter(RectLines, keep) \o Fillers(n) :
        n \in (TopCount - 2)..MaxFill, keep \in SUBSET DOMAIN RectLines }

(***************************************************************************)
(* process_dwg_file as a state machine.                                    *)
(***************************************************************************)
VARIABLES
    doc,                \* the entities of the document, by handle
    erased,             \* the handles of the entities the host has deleted
    pc,                 \* where process_dwg_file stands
    attempt,            \* the attempt of the retry loop (0 once it is left)
    result,             \* the ProcessingResult
    border,             \* what find_drawing_border returned, None before
    entities_to_delete, \* the rest of the list of the deleting loop
    deleted_count,
    requested,          \* the handles Delete() was called for
    host_errors,        \* the host calls that raised for good (an Open that
                        \* raised is listed once the retries are used up)
    dwg_files,          \* process_folder: the sorted list of the files found
    file_no,            \* process_folder: the position of the file at work
                        \* (0: process_dwg_file is called by main)
    results             \* process_folder: the list of the results

\* The variables of process_folder.
folder == << dwg_files, file_no, results >>

vars == << doc, erased, pc, attempt, result, border, entities_to_delete,
           deleted_count, requested, host_errors, dwg_files, file_no, results >>

max_retries == 3

\* ProcessingResult.__init__
NewResult ==
    [ status |-> "pending", error_message |-> "", entities_before |-> 0,
      entities_after |-> 0, entities_deleted |-> 0, border_found |-> FALSE,
      border_type |-> "", border_width |-> 0, border_height |-> 0,
      needs_review |-> FALSE ]

InitWith(documents, start) ==
    /\ doc \in documents
    /\ erased = {}
    /\ pc = start
    /\ attempt = IF start = "open" THEN 1 ELSE 0
    /\ result = NewResult
    /\ border = None
    /\ entities_to_delete = << >>
    /\ deleted_count = 0
    /\ requested = {}
    /\ host_errors = {}
    /\ dwg_files = << >>
    /\ file_no = 0
    /\ results = << >>

Init == InitWith(PipelineDocuments, "open")

\* doc.ModelSpace.Count as the host answers it
ModelSpaceCount == Len(doc) - Cardinality(erased)

\* Mutant: the return after the last failed attempt is missing.
OpenDocument_no_return ==
    /\ pc = "open"
    /\ \E ok \in BOOLEAN :
         IF ok
         THEN /\ pc' = "count_before"
              /\ attempt' = 0
              /\ UNCHANGED << result, host_errors >>
         ELSE IF attempt < max_retries
              THEN /\ attempt' = attempt + 1
                   /\ UNCHANGED << pc, result, host_errors >>
              ELSE /\ result' = [result EXCEPT !.status = "failed",
                                               !.error_message = "Failed to open"]
                   /\ host_errors' = host_errors \cup {"Open"}
                   /\ pc' = "count_before"
                   /\ attempt' = attempt
    /\ UNCHANGED << doc, erased, border, entities_to_delete, deleted_count,
                    requested >>
    /\ UNCHANGED folder

\* One pass of the retry loop: acad.Documents.Open(...) returns or raises.
OpenDocument ==
    /\ pc = "open"
    /\ \E ok \in BOOLEAN :
         IF ok
         THEN /\ pc' = "count_before"
              /\ attempt' = 0
              /\ UNCHANGED << result, host_errors >>
         ELSE IF attempt < max_retries
              THEN /\ attempt' = attempt + 1
                   /\ UNCHANGED << pc, result, host_errors >>
              ELSE /\ result' = [result EXCEPT !.status = "failed",
                                               !.error_message = "Failed to open"]
                   /\ host_errors' = host_errors \cup {"Open"}
                   /\ pc' = "done"
                   /\ attempt' = attempt
    /\ UNCHANGED << doc, erased, border, entities_to_delete, deleted_count,
                    requested >>
    /\ UNCHANGED folder

\* result.entities_before = doc.ModelSpace.Count, 0 when the query raises
CountBefore ==
    /\ pc = "count_before"
    /\ \E ok \in BOOLEAN :
         IF ok
         THEN /\ result' = [result EXCEPT !.entities_before = ModelSpaceCount]
              /\ UNCHANGED host_errors
         ELSE /\ result' = [result EXCEPT !.entities_before = 0]
              /\ host_errors' = host_errors \cup {"Count"}
    /\ pc' = "find_border"
    /\ UNCHANGED << doc, erased, attempt, border, entities_to_delete,
                    deleted_count, requested >>
    /\ UNCHANGED folder

\* bounds, border_handles, border_type = find_drawing_border(doc), and the
\* four assignments under "if bounds:".  An exception of a detector leaves
\* process_dwg_file.
FindBorderReturns(r) ==
    IF r.raised
    THEN /\ pc' = "raised"
         /\ UNCHANGED << result, border >>
    ELSE /\ border' = r
         /\ IF r.bounds # None
            THEN /\ result' = [result EXCEPT
                                 !.border_found = TRUE,
                                 !.border_type = r.border_type,
                                 !.border_width = Width(r.bounds),
                                 !.border_height = Height(r.bounds)]
                 /\ pc' = "collect"
            ELSE /\ UNCHANGED result
                 /\ pc' = "purge"

FindBorder ==
    /\ pc = "find_border"
    /\ FindBorderReturns(find_drawing_border(doc))
    /\ UNCHANGED << doc, erased, attempt, entities_to_delete, deleted_count,
                    requested, host_errors >>
    /\ UNCHANGED folder

\* Mutant: the first entity found outside is deleted before the collecting
\* loop goes on.
CollectEntities_and_delete ==
    /\ pc = "collect"
    /\ entities_to_delete' = CollectOutside(doc, border.bounds, border.handles)
    /\ requested' = requested \cup
          { entities_to_delete'[k] : k \in DOMAIN entities_to_delete' \cap {1} }
    /\ deleted_count' = 0
    /\ pc' = "delete"
    /\ UNCHANGED << doc, erased, attempt, result, border, host_errors >>
    /\ UNCHANGED folder

\* delete_entities_outside_bounds, the collecting loop
CollectEntities ==
    /\ pc = "collect"
    /\ entities_to_delete' = CollectOutside(doc, border.bounds, border.handles)
    /\ deleted_count' = 0
    /\ pc' = "delete"
    /\ UNCHANGED << doc, erased, attempt, result, border, requested, host_errors >>
    /\ UNCHANGED folder

\* Mutant: a Delete that raises ends the deleting loop.
DeleteEntity_until_failure ==
    /\ pc = "delete"
    /\ entities_to_delete # << >>
    /\ LET h == Head(entities_to_delete)
       IN  /\ requested' = requested \cup {h}
           /\ IF Ok(doc[h], "Delete")
              THEN /\ erased' = erased \cup {h}
                   /\ deleted_count' = deleted_count + 1
                   /\ entities_to_delete' = Tail(entities_to_delete)
              ELSE /\ UNCHANGED << erased, deleted_count >>
                   /\ entities_to_delete' = << >>
    /\ UNCHANGED << doc, pc, attempt, result, border, host_errors >>
    /\ UNCHANGED folder

\* delete_entities_outside_bounds, one pass of the deleting loop
DeleteEntity ==
    /\ pc = "delete"
    /\ entities_to_delete # << >>
    /\ LET h == Head(entities_to_delete)
       IN  /\ requested' = requested \cup {h}
           /\ IF Ok(doc[h], "Delete")
              THEN /\ erased' = erased \cup {h}
                   /\ deleted_count' = deleted_count + 1
              ELSE UNCHANGED << erased, deleted_count >>
    /\ entities_to_delete' = Tail(entities_to_delete)
    /\ UNCHANGED << doc, pc, attempt, result, border, host_errors >>
    /\ UNCHANGED folder

\* result.entities_deleted = delete_entities_outside_bounds(...)
DeleteDone ==
    /\ pc = "delete"
    /\ entities_to_delete = << >>
    /\ result' = [result EXCEPT !.entities_deleted = deleted_count]
    /\ pc' = "zoom"
    /\ UNCHANGED << doc, erased, attempt, border, entities_to_delete,
                    deleted_count, requested, host_errors >>
    /\ UNCHANGED folder

\* doc.SendCommand("_ZOOM _E \n"), outside every try block
ZoomExtents ==
    /\ pc = "zoom"
    /\ \E ok \in BOOLEAN :
         IF ok THEN pc' = "count_after" /\ UNCHANGED host_errors
         ELSE pc' = "raised" /\ host_errors' = host_errors \cup {"SendCommand"}
    /\ UNCHANGED << doc, erased, attempt, result, border, entities_to_delete,
                    deleted_count, requested >>
    /\ UNCHANGED folder

\* result.entities_after = doc.ModelSpace.Count, or before - deleted
CountAfter ==
    /\ pc = "count_after"
    /\ \E ok \in BOOLEAN :
         IF ok
         THEN /\ result' = [result EXCEPT !.entities_after = ModelSpaceCount]
              /\ UNCHANGED host_errors
         ELSE /\ result' = [result EXCEPT !.entities_after =
                              result.entities_before - result.entities_deleted]
              /\ host_errors' = host_errors \cup {"Count"}
    /\ pc' = "purge"
    /\ UNCHANGED << doc, erased, attempt, border, entities_to_delete,
                    deleted_count, requested >>
    /\ UNCHANGED folder

\* doc.SendCommand("-PURGE\nA\n*\nN\n"), outside every try block
Purge ==
    /\ pc = "purge"
    /\ \E ok \in BOOLEAN :
         IF ok THEN pc' = "save" /\ UNCHANGED host_errors
         ELSE pc' = "raised" /\ host_errors' = host_errors \cup {"SendCommand"}
    /\ UNCHANGED << doc, erased, attempt, result, border, entities_to_delete,
                    deleted_count, requested >>
    /\ UNCHANGED folder

\* doc.SaveAs(output_path_str)
SaveDocument ==
    /\ pc = "save"
    /\ \E ok \in BOOLEAN :
         IF ok
         THEN /\ result' = [result EXCEPT !.status = "success"]
              /\ UNCHANGED host_errors
         ELSE /\ result' = [result EXCEPT !.status = "failed",
                                          !.error_message = "Failed to save"]
              /\ host_errors' = host_errors \cup {"SaveAs"}
    /\ pc' = "close"
    /\ UNCHANGED << doc, erased, attempt, border, entities_to_delete,
                    deleted_count, requested >>
    /\ UNCHANGED folder

\* doc.Close(False); an error is printed and the alternative tried
CloseDocument ==
    /\ pc = "close"
    /\ \E ok \in BOOLEAN :
         host_errors' = IF ok THEN host_errors ELSE host_errors \cup {"Close"}
    /\ pc' = "review"
    /\ UNCHANGED << doc, erased, attempt, result, border, entities_to_delete,
                    deleted_count, requested >>
    /\ UNCHANGED folder

\* delete_percentage = entities_deleted / entities_before * 100 > 50
OverHalfDeleted(r) == r.entities_deleted * 100 > 50 * r.entities_before

\* "Check if file needs review", and return result
ReviewCheck ==
    /\ pc = "review"
    /\ result' = IF result.entities_before > 0 /\ OverHalfDeleted(result)
                 THEN [result EXCEPT !.needs_review = TRUE, !.status = "review"]
                 ELSE result
    /\ pc' = "done"
    /\ UNCHANGED << doc, erased, attempt, border, entities_to_delete,
                    deleted_count, requested, host_errors >>
    /\ UNCHANGED folder

Next ==
    \/ OpenDocument
    \/ CountBefore
    \/ FindBorder
    \/ CollectEntities
    \/ DeleteEntity
    \/ DeleteDone
    \/ ZoomExtents
    \/ CountAfter
    \/ Purge
    \/ SaveDocument
    \/ CloseDocument
    \/ ReviewCheck

Spec == Init /\ [][Next]_vars

\* find_drawing_border alone, on a wider range of documents ...
InitDetect == InitWith(DetectDocuments, "find_border")

SpecDetect == InitDetect /\ [][FindBorder]_vars

\* ... and on documents of lines.
InitLines == InitWith(LineDocuments, "find_border")

SpecLines == InitLines /\ [][FindBorder]_vars

\* ... and on documents of lines that connect.
InitLadder == InitWith(LadderDocuments, "find_border")

SpecLadder == InitLadder /\ [][FindBorder]_vars

\* ... and on documents with more than TopCount lines of a class.
InitLong == InitWith(LongDocuments, "find_border")

SpecLong == InitLong /\ [][FindBorder]_vars

(***************************************************************************)
(* process_folder: process_dwg_file for every file of the folder, in the   *)
(* order of the sorted names.  A file is a record of its name and of the   *)
(* document the host opens for it; the names are numbers, in the order of  *)
(* the file names.                                                         *)
(***************************************************************************)
MaxFiles == 2

FileNames == 1..MaxFiles

\* The documents of the files of a folder: a frame alone; a frame after two
\* entities out of it; a polyline for which Handle raises.
FolderDocuments ==
    { << Entity("AcDbPolyline", Name_0, << >>, << 0, 0, 1000, 800 >>, {}) >>,
      << Entity("AcDbCircle", Name_0, << >>, << -2, 0, 50, 50 >>, {}),
         Entity("AcDbCircle", Name_0, << >>, << -2, 0, 50, 50 >>, {}),
         Entity("AcDbPolyline", Name_0, << >>, << 0, 0, 1000, 800 >>, {}) >>,
      << Entity("AcDb2dPolyline", Name_0, << >>, << 0, 0, 400, 300 >>, {"Handle"}) >> }

\* The orders in which the set of the files found can be listed.
Listings(found) ==
    { l \in [1..Cardinality(found) -> found] :
        \A i, j \in 1..Cardinality(found) : i # j => l[i] # l[j] }

\* dwg_files = sorted(list(dwg_files)), for the files listed in some order
SortedFiles(listing, content) ==
    SortAscending([k \in 1..Len(listing) |->
                      [name |-> listing[k], doc |-> content[listing[k]]]],
                  listing)

\* The entry of process_dwg_file for the file at position k.
StartFile(k) ==
    /\ file_no' = k
    /\ doc' = dwg_files[k].doc
    /\ erased' = {}
    /\ pc' = "open"
    /\ attempt' = 1
    /\ result' = NewResult
    /\ border' = None
    /\ entities_to_delete' = << >>
    /\ deleted_count' = 0
    /\ requested' = {}
    /\ host_errors' = {}

\* The next pass of "for i, dwg_file in enumerate(dwg_files)", or the
\* reports after the last one.
NextFile ==
    IF file_no < Len(dwg_files) THEN StartFile(file_no + 1)
    ELSE /\ pc' = "reports"
         /\ UNCHANGED << doc, erased, attempt, result, border,
                         entities_to_delete, deleted_count, requested,
                         host_errors, file_no >>

\* An element of results: the ProcessingResult, with its filename, and the
\* host calls that raised while the file was processed.
FileResult(r) ==
    [ filename |-> dwg_files[file_no].name, result |-> r, errors |-> host_errors ]

\* result = process_dwg_file(...); results.append(result)
AppendResult ==
    /\ file_no > 0
    /\ pc = "done"
    /\ results' = Append(results, FileResult(result))
    /\ NextFile
    /\ UNCHANGED dwg_files

\* except Exception: a failed result for the unexpected error
CatchException ==
    /\ file_no > 0
    /\ pc = "raised"
    /\ results' = Append(results,
            FileResult([NewResult EXCEPT !.status = "failed",
                                         !.error_message = "Unexpected error"]))
    /\ NextFile
    /\ UNCHANGED dwg_files

\* process_folder up to the first pass of its loop; it returns at once when
\* it finds no file.
FirstFile ==
    IF dwg_files = << >>
    THEN /\ file_no = 0 /\ doc = << >> /\ pc = "no_files" /\ attempt = 0
    ELSE /\ file_no = 1 /\ doc = dwg_files[1].doc /\ pc = "open" /\ attempt = 1

InitFolder ==
    /\ \E found \in SUBSET FileNames :
          \E content \in [found -> FolderDocuments] :
             \E listing \in Listings(found) :
                dwg_files = SortedFiles(listing, content)
    /\ results = << >>
    /\ FirstFile
    /\ erased = {}
    /\ result = NewResult
    /\ border = None
    /\ entities_to_delete = << >>
    /\ deleted_count = 0
    /\ requested = {}
    /\ host_errors = {}

NextFolder ==
    \/ Next
    \/ AppendResult
    \/ CatchException

SpecFolder == InitFolder /\ [][NextFolder]_vars

(***************************************************************************)
(* The properties.                                                         *)
(***************************************************************************)
\* find_drawing_border has returned bounds and the loops of
\* delete_entities_outside_bounds have been left.
Pruned ==
    /\ border # None
    /\ border.bounds # None
    /\ pc \notin {"collect", "delete"}

\* box lies within bounds widened by 1 unit on every side.
WithinExpanded(box, bounds) ==
    /\ box[1] >= bounds[1] - 1
    /\ box[2] >= bounds[2] - 1
    /\ box[3] <= bounds[3] + 1
    /\ box[4] <= bounds[4] + 1

\* C1. Border preservation: Delete is never called for, and the host never
\* erases, an entity whose handle is among the contributing handles of the
\* winning candidate, wherever the bounding box of that entity lies.
BorderPreservation ==
    border # None =>
        /\ requested \cap border.handles = {}
        /\ erased \cap border.handles = {}

\* The pruning is over, and a contributing entity that reaches out of the
\* widened bounds is still there.
BorderPreservationWitness ==
    /\ Pruned
    /\ \E h \in border.handles :
          /\ ~WithinExpanded(doc[h].box, border.bounds)
          /\ h \notin requested

\* C2. Containment correctness: once the pruning is over, an entity that is
\* not a contributing one, and whose Handle and GetBoundingBox queries
\* succeed, has had no Delete called for it iff its bounding box lies within
\* the winning bounds widened by 1 unit on every side, limits included.
ContainmentCorrectness ==
    Pruned =>
        \A i \in 1..Len(doc) :
            ( /\ i \notin border.handles
              /\ Ok(doc[i], "Handle")
              /\ Ok(doc[i], "GetBoundingBox") )
            => (i \notin requested <=> WithinExpanded(doc[i].box, border.bounds))

\* The pruning is over; an entity that reaches exactly 1 unit out of the
\* bounds on every side is kept, and one that reaches 2 units out of them on
\* one side only has had Delete called for it.
ContainmentCorrectnessWitness ==
    /\ Pruned
    /\ \E i \in 1..Len(doc) :
          /\ i \notin border.handles \cup requested
          /\ doc[i].box = << border.bounds[1] - 1, border.bounds[2] - 1,
                             border.bounds[3] + 1, border.bounds[4] + 1 >>
    /\ \E i \in requested :
          /\ doc[i].box[1] >= border.bounds[1] - 1
          /\ doc[i].box[2] >= border.bounds[2] - 1
          /\ doc[i].box[3] = border.bounds[3] + 2
          /\ doc[i].box[4] <= border.bounds[4] + 1

\* An Open that used up its retries, or a SaveAs, raised.
FatalError == host_errors \cap {"Open", "SaveAs"} # {}

\* A border was found and more than half of the entities counted before
\* were deleted.
OverThreshold ==
    /\ result.border_found
    /\ result.entities_before > 0
    /\ 2 * result.entities_deleted > result.entities_before

\* C3. Review-threshold law: when process_dwg_file returns, the status is
\* "review" iff a border was found, more than half of the entities were
\* deleted and neither the open nor the save failed; and without such a
\* failure the status is "success" otherwise.
ReviewThresholdLaw ==
    pc = "done" =>
        /\ result.status = "review" <=> (OverThreshold /\ ~FatalError)
        /\ (~FatalError /\ ~OverThreshold) => result.status = "success"

\* C4. A failed status wins over the review flag: when process_dwg_file
\* returns after the open or the save has failed, the status is "failed",
\* whatever the share of the deleted entities.
FailedWinsOverReview ==
    (pc = "done" /\ FatalError) => result.status = "failed"

\* What the detectors 1 to 4 return for the document, in the order of
\* their calls, and the kinds of their candidates.
DetectorResults ==
    << find_border_block_reference(doc), find_border_by_layer(doc),
       find_largest_3dface(doc), find_largest_rectangular_polyline(doc) >>

DetectorKinds == << "border_block", "border_layer", "3dface", "polyline" >>

\* The detectors that return a candidate, rs being what the four return.
Producing(rs) == { k \in 1..4 : rs[k].bounds # None }

\* The winner is the candidate of detector k.
IsWinner(rs, k) ==
    /\ border.border_type = DetectorKinds[k]
    /\ border.bounds = rs[k].bounds
    /\ border.handles = rs[k].handles

\* No candidate has a larger area than the winner, and every candidate of
\* a detector before k has a smaller one.
LargestAndFirst(rs, k) ==
    \A j \in Producing(rs) :
        /\ Area(rs[j].bounds) <= Area(border.bounds)
        /\ j < k => Area(rs[j].bounds) < Area(border.bounds)

WinnerIsLargestAndFirst(rs) ==
    Producing(rs) # {} =>
        \E k \in Producing(rs) : IsWinner(rs, k) /\ LargestAndFirst(rs, k)

\* C5. Arbitration: when one of the detectors 1 to 4 returns a candidate,
\* find_drawing_border returns one of their candidates, of the largest
\* area among them, and every candidate of an earlier detector has a
\* strictly smaller area.
ArbitrationByArea ==
    border # None => WinnerIsLargestAndFirst(DetectorResults)

\* The layer detector and the polyline detector both return the bounds
\* (0,0)-(1000,800), and the layer candidate has won.
ArbitrationByAreaWitness ==
    /\ border # None
    /\ border.border_type = "border_layer"
    /\ border.bounds = << 0, 0, 1000, 800 >>
    /\ find_largest_rectangular_polyline(doc).bounds = << 0, 0, 1000, 800 >>

LinesCalledIffNoCandidate(rs) ==
    /\ border.lines_called <=> Producing(rs) = {}
    /\ border.border_type = "lines" => Producing(rs) = {}

\* C6. The line detector is a fallback only: find_drawing_border calls
\* find_border_from_longest_lines iff none of the detectors 1 to 4 returned
\* a candidate, and returns the kind "lines" in that case only.
LinesAreFallbackOnly ==
    border # None => LinesCalledIffNoCandidate(DetectorResults)

LargerThanWinner(r5) ==
    r5.bounds # None /\ Area(r5.bounds) > Area(border.bounds)

\* A candidate of the detectors 1 to 4 has won without the line detector
\* being called, though the lines of the document form a rectangle of a
\* larger area.
LinesAreFallbackOnlyWitness ==
    /\ border # None
    /\ border.bounds # None
    /\ ~border.lines_called
    /\ border.border_type \in { DetectorKinds[k] : k \in 1..4 }
    /\ LargerThanWinner(find_border_from_longest_lines(doc))

\* The line entities of the document that run more than twice as far along
\* x as along y, and those that run more than twice as far along y.
HorizontalLines ==
    { i \in 1..Len(doc) :
        /\ IsLine(doc[i].type)
        /\ Abs(doc[i].ep[1] - doc[i].sp[1]) > 2 * Abs(doc[i].ep[2] - doc[i].sp[2]) }
VerticalLines ==
    { i \in 1..Len(doc) :
        /\ IsLine(doc[i].type)
        /\ Abs(doc[i].ep[2] - doc[i].sp[2]) > 2 * Abs(doc[i].ep[1] - doc[i].sp[1]) }

\* The detectors 1 to 4 returned no candidate, and the document has fewer
\* than 2 horizontal or fewer than 2 vertical lines.
NoBorderCase ==
    /\ border # None
    /\ border.candidates = << >>
    /\ Cardinality(HorizontalLines) < 2 \/ Cardinality(VerticalLines) < 2

\* C7. No border means no deletion: when the detectors 1 to 4 return no
\* candidate and the document has fewer than 2 horizontal or fewer than 2
\* vertical lines, no border is found, Delete is called for no entity, no
\* entity is erased, entities_deleted is 0, and process_dwg_file returns the
\* status "success" when the save succeeds.
NoBorderNoDeletion ==
    NoBorderCase =>
        /\ border.bounds = None
        /\ ~result.border_found
        /\ requested = {}
        /\ erased = {}
        /\ result.entities_deleted = 0
        /\ (pc = "done" /\ "SaveAs" \notin host_errors) => result.status = "success"

\* process_dwg_file has returned "success" for a document of two horizontal
\* lines and one more entity, without a border.
NoBorderNoDeletionWitness ==
    /\ NoBorderCase
    /\ pc = "done"
    /\ Len(doc) >= 3
    /\ Cardinality(HorizontalLines) >= 2
    /\ result.status = "success"
    /\ result.entities_before = Len(doc)

\* The lines the line detector retained, longest first, from the handles
\* it listed.
RetainedHorizontal ==
    Top([k \in DOMAIN border.lines.horizontal |->
            LineData(doc, border.lines.horizontal[k])])
RetainedVertical ==
    Top([k \in DOMAIN border.lines.vertical |->
            LineData(doc, border.lines.vertical[k])])

\* Some quadruple of retained lines is valid at tolerance t.
QuadrupleAt(t) == Rectangles(RetainedHorizontal, RetainedVertical, t) # {}

\* The first valid quadruple at tolerance t, as handles.
FirstQuadrupleAt(t) ==
    HandlesOf(find_rectangle_from_lines(RetainedHorizontal, RetainedVertical, t))

Ladder == {50, 20, 10, 5, 2, 1}

\* The line detector was called and returned bounds.
LinesWon == border # None /\ border.lines_called /\ border.bounds # None

\* C8. Tolerance-ladder minimality: the rectangle the line detector settles
\* on is the first valid quadruple at the largest tolerance of the ladder
\* at which the retained lines have a valid quadruple; it falls back to the
\* longest lines only when they have none at any tolerance of the ladder.
LadderMinimality ==
    LinesWon =>
        /\ border.lines.tolerance \in Ladder \cup {0}
        /\ border.lines.tolerance # 0 =>
              /\ QuadrupleAt(border.lines.tolerance)
              /\ border.lines.rectangle = FirstQuadrupleAt(border.lines.tolerance)
              /\ \A u \in Ladder : u > border.lines.tolerance => ~QuadrupleAt(u)
        /\ border.lines.tolerance = 0 => \A u \in Ladder : ~QuadrupleAt(u)

\* The rectangle was found at tolerance 50, and it is not the quadruple
\* that the smallest tolerance of the ladder yields.
LadderMinimalityWitness ==
    /\ LinesWon
    /\ border.lines.tolerance = 50
    /\ QuadrupleAt(1)
    /\ FirstQuadrupleAt(1) # border.lines.rectangle

\* The layer name, in upper case, contains BORDER or FRAME, is DEFPOINTS,
\* or starts with "LEVEL ".
OnMatchingLayer(e) ==
    \/ Contains(upper(e.layer), BORDER)
    \/ Contains(upper(e.layer), FRAME)
    \/ upper(e.layer) = DEFPOINTS
    \/ StartsWith(upper(e.layer), LEVEL_SP)

\* The entities on a matching layer whose queries succeed.
MatchingEntities ==
    { i \in 1..Len(doc) :
        /\ OnMatchingLayer(doc[i])
        /\ Ok(doc[i], "Layer")
        /\ Ok(doc[i], "GetBoundingBox")
        /\ Ok(doc[i], "Handle") }

LayerCandidates ==
    { k \in DOMAIN border.candidates : border.candidates[k].type = "border_layer" }

\* b is the smallest box that holds the boxes of the entities of S.
ExactUnion(b, S) ==
    /\ \A i \in S : /\ b[1] <= doc[i].box[1]
                    /\ b[2] <= doc[i].box[2]
                    /\ b[3] >= doc[i].box[3]
                    /\ b[4] >= doc[i].box[4]
    /\ \A c \in {1, 2} : \E i \in S : b[c] = doc[i].box[c]
    /\ \A c \in {3, 4} : \E i \in S : b[c] = doc[i].box[c]

\* C10. Layer-union exactness: the candidates hold at most one candidate of
\* the layer detector; its bounds are the component-wise min of the mins
\* and max of the maxs of the bounding boxes of the entities on a matching
\* layer, and its handles are the handles of exactly these entities.
LayerUnionExactness ==
    border # None =>
        /\ Cardinality(LayerCandidates) <= 1
        /\ \A k \in LayerCandidates :
              /\ border.candidates[k].handles = MatchingEntities
              /\ ExactUnion(border.candidates[k].bounds, MatchingEntities)

\* A layer candidate of several entities, none of which has the bounds of
\* the candidate as its box, beside an entity that is not on a matching
\* layer.
LayerUnionExactnessWitness ==
    /\ border # None
    /\ \E k \in LayerCandidates :
          /\ Cardinality(border.candidates[k].handles) >= 2
          /\ \A h \in border.candidates[k].handles :
                doc[h].box # border.candidates[k].bounds
          /\ \E i \in 1..Len(doc) : ~OnMatchingLayer(doc[i])

\* C11. The layer detector rejects its union box when the width or the
\* height is below 100 or when the aspect ratio max(w,h)/min(w,h) is 5 or
\* more: every layer candidate is at least 100 wide and high, and its
\* longer side is less than 5 times its shorter side.
LayerBoxFilter ==
    border # None =>
        \A k \in LayerCandidates :
            /\ Width(border.candidates[k].bounds) >= 100
            /\ Height(border.candidates[k].bounds) >= 100
            /\ AspectBelow(Width(border.candidates[k].bounds),
                           Height(border.candidates[k].bounds), 5)

\* C12. Every winner find_drawing_border returns, of whatever kind, has a
\* width and a height above 0, hence an area above 0.
WinnerHasPositiveArea ==
    (border # None /\ border.bounds # None) =>
        /\ Width(border.bounds) > 0
        /\ Height(border.bounds) > 0

\* C13. In every ProcessingResult process_dwg_file returns, entities_deleted
\* is at most entities_before, whatever the host queries answered.
DeletedAtMostBefore ==
    pc = "done" => result.entities_deleted <= result.entities_before

\* The open (once the retries were used up) or the save of the file of the
\* k-th result raised.
FatalErrorIn(k) == results[k].errors \cap {"Open", "SaveAs"} # {}

\* C14. A file has the status "failed" only when its open or its save
\* failed; for every other file, whatever other host call raised while it
\* was processed, the status is "success" or "review".
FailedOnlyOnOpenOrSave ==
    \A k \in DOMAIN results :
        /\ results[k].result.status = "failed" => FatalErrorIn(k)
        /\ ~FatalErrorIn(k) => results[k].result.status \in {"success", "review"}

\* A step that calls Delete or erases an entity is a pass of the deleting
\* loop: find_drawing_border has returned its winner, and the step takes
\* the entity from the head of the list that the collecting loop has left.
DeleteIsAfterDetection ==
    (requested' # requested \/ erased' # erased) =>
        /\ pc = "delete"
        /\ border # None /\ border.bounds # None
        /\ entities_to_delete # << >>
        /\ requested' = requested \cup {Head(entities_to_delete)}
        /\ erased' \subseteq requested'
        /\ entities_to_delete' = Tail(entities_to_delete)

\* The list of the entities to delete is written by the collecting loop
\* only, as a whole and while no Delete has been called; afterwards it only
\* loses its head.
ClassificationIsBeforeDeletion ==
    entities_to_delete' # entities_to_delete =>
        \/ /\ pc = "collect"
           /\ requested = {} /\ erased = {}
           /\ requested' = {} /\ erased' = {}
           /\ entities_to_delete' =
                 CollectOutside(doc, border.bounds, border.handles)
        \/ /\ pc = "delete"
           /\ entities_to_delete' = Tail(entities_to_delete)

\* C15. Detection is a read-only pass that ends before any mutation: the
\* document is never rewritten, the step of find_drawing_border calls no
\* Delete, every Delete is called after find_drawing_border has returned the
\* winner, and the pruner classifies every entity before it calls the first
\* Delete.
DetectionBeforeMutation ==
    [][ /\ doc' = doc
        /\ DeleteIsAfterDetection
        /\ ClassificationIsBeforeDeletion ]_vars

\* The deleting loop is at work: a Delete has been called, another entity,
\* classified before, waits for its own.
DetectionBeforeMutationWitness ==
    /\ pc = "delete"
    /\ requested # {}
    /\ entities_to_delete # << >>
    /\ border # None

\* The entities the pruner classifies outside: not contributing, Handle and
\* GetBoundingBox answered, and the box reaches out of the widened bounds.
ClassifiedOutside ==
    { i \in 1..Len(doc) :
        /\ i \notin border.handles
        /\ Ok(doc[i], "Handle")
        /\ Ok(doc[i], "GetBoundingBox")
        /\ ~WithinExpanded(doc[i].box, border.bounds) }

\* C16. A Delete that fails is isolated: once the pruning is over, Delete
\* has been called for every entity classified outside, whichever of these
\* calls raised; entities_deleted is the number of the calls that succeeded;
\* and when process_dwg_file returns, the save has been attempted.
DeleteFailureIsolated ==
    Pruned =>
        /\ requested = ClassifiedOutside
        /\ erased = { i \in requested : Ok(doc[i], "Delete") }
        /\ result.entities_deleted = Cardinality(erased)
        /\ pc = "done" => result.status # "pending"

\* process_dwg_file has returned after a save that succeeded, for a
\* document in which one Delete raised and a later one succeeded.
DeleteFailureIsolatedWitness ==
    /\ Pruned
    /\ pc = "done"
    /\ "SaveAs" \notin host_errors
    /\ \E i, j \in requested :
          /\ i < j
          /\ ~Ok(doc[i], "Delete")
          /\ j \in erased
    /\ result.entities_deleted = 1


\* The bounding box query or the handle query of entity i fails.
QueryFails(i) ==
    \/ ~Ok(doc[i], "GetBoundingBox")
    \/ ~Ok(doc[i], "Handle")

\* C17. Fail-open pruning: Delete is never requested for, and the host never
\* erases, an entity whose bounding box query or handle query fails,
\* whatever the winning bounds are.
FailOpenPruning ==
    \A i \in 1..Len(doc) :
        QueryFails(i) => /\ i \notin requested
                         /\ i \notin erased
                         /\ \A k \in 1..Len(entities_to_delete) :
                                entities_to_delete[k] # i

\* Pruning has finished on a document with an entity whose bounding box
\* query fails and an entity whose handle query fails, neither of them
\* contributing to the border and both with geometry outside the expanded
\* bounds; both are still in the document.
FailOpenPruningWitness ==
    /\ Pruned
    /\ pc = "done"
    /\ \E i, j \in 1..Len(doc) :
          /\ ~Ok(doc[i], "GetBoundingBox")
          /\ ~Ok(doc[j], "Handle")
          /\ Ok(doc[j], "GetBoundingBox")
          /\ {i, j} \cap border.handles = {}
          /\ ~WithinExpanded(doc[i].box, border.bounds)
          /\ ~WithinExpanded(doc[j].box, border.bounds)
          /\ {i, j} \cap erased = {}


\* C18. No detector raises on a malformed entity: whichever per-entity
\* query fails, border detection returns normally and process_dwg_file is
\* not left by an exception of a detector.
DetectorsNeverRaise == pc # "raised"


\* The k-th result was made by the handler of process_folder for an
\* exception that left process_dwg_file.
UnexpectedErrorIn(k) == results[k].result.error_message = "Unexpected error"

\* C19. Batch isolation: the results are those of the files of the folder,
\* one each and in the sorted order of the file names, whichever host calls
\* failed; a file whose open or save failed, or that raised an unexpected
\* error, has the status "failed", and the files after it are processed: at
\* the reports every file has its result.
BatchIsolation ==
    /\ Len(results) <= Len(dwg_files)
    /\ \A k, l \in DOMAIN dwg_files : k < l => dwg_files[k].name < dwg_files[l].name
    /\ \A k \in DOMAIN results : results[k].filename = dwg_files[k].name
    /\ pc = "reports" => Len(results) = Len(dwg_files)
    /\ \A k \in DOMAIN results :
          (FatalErrorIn(k) \/ UnexpectedErrorIn(k)) =>
              results[k].result.status = "failed"


\* The kinds of the three detectors that return one entity, and the
\* category of entity each of them looks at.
SingleEntityKinds == { "border_block", "3dface", "polyline" }

InCategory(kind, e) ==
    /\ Ok(e, "EntityName")
    /\ CASE kind = "border_block" -> e.type = "AcDbBlockReference"
         [] kind = "3dface"       -> e.type = "AcDbFace"
         [] kind = "polyline"     -> e.type \in {"AcDbPolyline", "AcDb2dPolyline"}

\* The name of a block instance, case-folded, contains BORDER, FRAME or TITLE.
HasBorderName(e) ==
    /\ Ok(e, "Name")
    /\ \E word \in {BORDER, FRAME, TITLE} : Contains(upper(e.name), word)

\* The validity filter of the detector of the kind, on width w and height h.
PassesFilter(kind, e, w, h) ==
    CASE kind = "border_block" ->
             HasBorderName(e) /\ w > 100 /\ h > 100 /\ Max2(w, h) < 5 * Min2(w, h)
      [] kind = "3dface"   -> w > 0 /\ h > 0 /\ Max2(w, h) < 3 * Min2(w, h)
      [] kind = "polyline" -> w > 0 /\ h > 0 /\ Max2(w, h) < 10 * Min2(w, h)

\* The entities of the document that pass the filter of the kind.
Qualifying(kind) ==
    { i \in 1..Len(doc) :
        /\ InCategory(kind, doc[i])
        /\ Ok(doc[i], "GetBoundingBox")
        /\ PassesFilter(kind, doc[i], doc[i].box[3] - doc[i].box[1],
                        doc[i].box[4] - doc[i].box[2]) }

\* The candidates of the kind among those border detection has collected.
CandidatesOf(kind) ==
    { k \in DOMAIN border.candidates : border.candidates[k].type = kind }

\* Candidate c is entity i alone, and no entity of Q has a larger area.
IsLargestOf(c, i, Q) ==
    /\ c.handles = {i}
    /\ c.bounds = doc[i].box
    /\ \A j \in Q : Area(doc[j].box) <= Area(doc[i].box)

SquaredLength(i) ==
    (doc[i].ep[1] - doc[i].sp[1]) * (doc[i].ep[1] - doc[i].sp[1])
    + (doc[i].ep[2] - doc[i].sp[2]) * (doc[i].ep[2] - doc[i].sp[2])

\* Fewer than 30 lines of the class are longer than line i.
AmongLongest(i, class) ==
    Cardinality({ j \in class : SquaredLength(j) > SquaredLength(i) }) < 30

\* C21. Every contributing line of a lines candidate is a Line entity of
\* nonzero length that is horizontal or vertical, never both, and among the
\* 30 longest of its class; the candidate has two horizontal and two
\* vertical contributing lines, four distinct handles in all.
LinesContributors ==
    LinesWon =>
        /\ \A i \in border.handles :
              /\ i \in 1..Len(doc)
              /\ IsLine(doc[i].type)
              /\ SquaredLength(i) > 0
              /\ i \in HorizontalLines \cup VerticalLines
              /\ i \notin HorizontalLines \cap VerticalLines
              /\ i \in HorizontalLines => AmongLongest(i, HorizontalLines)
              /\ i \in VerticalLines => AmongLongest(i, VerticalLines)
        /\ Cardinality(border.handles \cap HorizontalLines) = 2
        /\ Cardinality(border.handles \cap VerticalLines) = 2
        /\ Cardinality(border.handles) = 4

\* The line detector returned a candidate on a document with more than 30
\* horizontal lines, among them two that are not among the 30 longest and
\* form a rectangle with two vertical lines, and with a line that is neither
\* horizontal nor vertical and a line of length 0.
LinesContributorsWitness ==
    /\ LinesWon
    /\ Cardinality(HorizontalLines) > 30
    /\ \E h1, h2 \in HorizontalLines, v1, v2 \in VerticalLines :
          /\ h1 # h2 /\ v1 # v2
          /\ ~AmongLongest(h1, HorizontalLines)
          /\ ~AmongLongest(h2, HorizontalLines)
          /\ \A h \in {h1, h2}, v \in {v1, v2} :
                lines_connect(LineData(doc, h), LineData(doc, v), 1)
    /\ \E i, j \in 1..Len(doc) :
          /\ IsLine(doc[i].type) /\ IsLine(doc[j].type)
          /\ SquaredLength(i) = 0
          /\ SquaredLength(j) > 0
          /\ j \notin HorizontalLines \cup VerticalLines


\* The line detector was called and has returned.
LinesCalled == border # None /\ border.lines_called

\* No quadruple of retained lines is valid at any tolerance of the ladder.
NoQuadruple(hs, vs) == \A t \in Ladder : Rectangles(hs, vs, t) = {}

\* Line i is one of the two longest of its class: at most one line of the
\* class is longer.
AmongTwoLongest(i, class) ==
    Cardinality({ j \in class : SquaredLength(j) > SquaredLength(i) }) < 2

\* The contributing lines are two of the longest horizontal and two of the
\* longest vertical lines.
TwoLongestOfEach ==
    /\ Cardinality(border.handles \cap HorizontalLines) = 2
    /\ Cardinality(border.handles \cap VerticalLines) = 2
    /\ Cardinality(border.handles) = 4
    /\ \A i \in border.handles \cap HorizontalLines :
          AmongTwoLongest(i, HorizontalLines)
    /\ \A i \in border.handles \cap VerticalLines :
          AmongTwoLongest(i, VerticalLines)

\* C22. With at least 2 horizontal and 2 vertical lines the line detector
\* always returns a candidate; when no tolerance of the ladder yields a
\* connected quadruple, the candidate is built from the two longest
\* horizontal and the two longest vertical lines, connected or not.
LongestLinesFallback ==
    (/\ LinesCalled
     /\ Cardinality(HorizontalLines) >= 2
     /\ Cardinality(VerticalLines) >= 2) =>
        /\ border.bounds # None
        /\ NoQuadruple(RetainedHorizontal, RetainedVertical) =>
              /\ border.lines.tolerance = 0
              /\ TwoLongestOfEach

\* The line detector returned a candidate one of whose horizontal lines
\* connects with none of its vertical lines within 50 units.
LongestLinesFallbackWitness ==
    /\ LinesWon
    /\ border.lines.tolerance = 0
    /\ TwoLongestOfEach
    /\ \E h \in border.handles \cap HorizontalLines :
          \A v \in border.handles \cap VerticalLines :
              ~lines_connect(LineData(doc, h), LineData(doc, v), 50)


\* Twice the midpoint of line i along x, and along y.
TwiceMidX(i) == doc[i].sp[1] + doc[i].ep[1]
TwiceMidY(i) == doc[i].sp[2] + doc[i].ep[2]

\* The bounds are the midpoints of the lines: lower and upper horizontal
\* line for y, left and right vertical line for x.
MidpointsOf(bounds, bottom, top, left, right) ==
    /\ TwiceMidY(bottom) <= TwiceMidY(top)
    /\ TwiceMidX(left) <= TwiceMidX(right)
    /\ 2 * bounds[1] = TwiceMidX(left)
    /\ 2 * bounds[2] = TwiceMidY(bottom)
    /\ 2 * bounds[3] = TwiceMidX(right)
    /\ 2 * bounds[4] = TwiceMidY(top)

ExtentY(hs) ==
    << SetMin({ Min2(doc[i].sp[2], doc[i].ep[2]) : i \in hs }),
       SetMax({ Max2(doc[i].sp[2], doc[i].ep[2]) : i \in hs }) >>

RectanglesAt(hs, vs) ==
    << Rectangles(hs, vs, 50), Rectangles(hs, vs, 20), Rectangles(hs, vs, 10),
       Rectangles(hs, vs, 5), Rectangles(hs, vs, 2), Rectangles(hs, vs, 1) >>

\* Two lines that connect within t connect within every u >= t.
ConnectMonotone(hs, vs) ==
    \A h \in DOMAIN hs, v \in DOMAIN vs : \A t, u \in Ladder :
        (t <= u /\ lines_connect(hs[h], vs[v], t)) => lines_connect(hs[h], vs[v], u)

\* A quadruple valid at a tolerance is valid at every larger one.
RectanglesMonotone(R) ==
    \A k, l \in DOMAIN R : k <= l => R[l] \subseteq R[k]

\* The ladder stops at its first step when some tolerance has a valid
\* quadruple, and at none otherwise.
FirstStepOrNone(R) ==
    border.lines.tolerance = IF \E k \in DOMAIN R : R[k] # {} THEN 50 ELSE 0

\* The first valid quadruple is the same one at every tolerance that has
\* one.
SameFirstQuadruple(hs, vs, R) ==
    \A k \in DOMAIN R :
        R[k] # {} => FirstOf(hs, vs, R[k]) = FirstOf(hs, vs, R[1])

LadderLaw(hs, vs, R) ==
    /\ ConnectMonotone(hs, vs)
    /\ RectanglesMonotone(R)
    /\ FirstStepOrNone(R)

\* C24 as stated. Ladder monotonicity: lines that connect within t connect
\* within every larger tolerance, so a search that succeeds at a tolerance
\* below 50 succeeds at 50 with the same first quadruple, and the ladder
\* succeeds at its first step or at none.
LadderMonotonicityAsStated ==
    LinesWon =>
        /\ LadderLaw(RetainedHorizontal, RetainedVertical,
                     RectanglesAt(RetainedHorizontal, RetainedVertical))
        /\ SameFirstQuadruple(RetainedHorizontal, RetainedVertical,
                              RectanglesAt(RetainedHorizontal, RetainedVertical))

\* C24, amended. Ladder monotonicity: lines that connect within t connect
\* within every larger tolerance, so every quadruple valid at a tolerance
\* below 50 is valid at 50, and the ladder succeeds at its first step or at
\* none; the first quadruple found at 50 need not be the first one a
\* smaller tolerance would find.
LadderMonotonicity ==
    LinesWon =>
        LadderLaw(RetainedHorizontal, RetainedVertical,
                  RectanglesAt(RetainedHorizontal, RetainedVertical))

\* The ladder stopped at 50 on lines that have a valid quadruple at
\* tolerance 1 too, and fewer valid quadruples at 20 than at 50.
LadderMonotonicityWitness ==
    /\ LinesWon
    /\ border.lines.tolerance = 50
    /\ QuadrupleAt(1)
    /\ Rectangles(RetainedHorizontal, RetainedVertical, 20)
          # Rectangles(RetainedHorizontal, RetainedVertical, 50)


\* process_dwg_file has returned for a file that was opened, and no count
\* query raised.
OpenedAndCounted ==
    /\ pc = "done"
    /\ host_errors \cap {"Open", "Count"} = {}

\* C25. Count consistency: for every file that was opened, the count after
\* is the count before less the number of deleted entities; with no border
\* found nothing is deleted and the count after equals the count before.
CountConsistency ==
    OpenedAndCounted =>
        /\ result.entities_after = result.entities_before - result.entities_deleted
        /\ ~result.border_found =>
              /\ result.entities_deleted = 0
              /\ result.entities_after = result.entities_before


\* What process_dwg_file returns when the document could not be opened:
\* status failed with a message, nothing counted, detected, deleted, saved
\* or flagged for review.
FailedToOpen ==
    /\ result = [NewResult EXCEPT !.status = "failed",
                                  !.error_message = result.error_message]
    /\ result.error_message # ""
    /\ border = None
    /\ requested = {} /\ erased = {}
    /\ entities_to_delete = << >>
    /\ host_errors = {"Open"}

\* A step of the retry loop: the attempt succeeds and the loop is left for
\* the count, or it fails and is followed by the next attempt, or it is
\* the last attempt, fails, and process_dwg_file returns.
OpenStep ==
    /\ attempt \in 1..max_retries
    /\ \/ /\ pc' = "count_before"
          /\ host_errors' = host_errors /\ result' = result
       \/ /\ pc' = "open"
          /\ attempt < max_retries /\ attempt' = attempt + 1
          /\ host_errors' = host_errors /\ result' = result
       \/ /\ pc' = "done"
          /\ attempt = max_retries
          /\ FailedToOpen'

\* C26. Open retry protocol: the document is opened at most max_retries
\* times, and no more once an attempt has succeeded; when every attempt has
\* failed, process_dwg_file returns at once with status failed and a
\* message, all counts 0 and no border found, and takes no further step: no
\* detector, delete, save or review check.
OpenRetryProtocol ==
    [][ /\ pc = "open" => OpenStep
        /\ pc # "open" => pc' # "open"
        /\ "Open" \in host_errors => UNCHANGED vars ]_vars

\* Every attempt to open has failed, for a document with a frame and two
\* entities outside it, which a run that opened it would have pruned and
\* flagged for review.
OpenRetryProtocolWitness ==
    /\ pc = "done"
    /\ FailedToOpen
    /\ attempt = max_retries
    /\ Len(doc) = 3
    /\ \E i, j, k \in 1..3 :
          /\ i # j
          /\ doc[k].type = "AcDbPolyline"
          /\ ~WithinExpanded(doc[i].box, doc[k].box)
          /\ ~WithinExpanded(doc[j].box, doc[k].box)

=============================================================================
